---- MODULE Spec2Model ----
(***************************************************************************)
(* Pack reconciliation and host targeting of the fleet MySQL datastore     *)
(* (src/cmd/fleetctl/api.go, "package mysql" part, lines 263-581).         *)
(*                                                                         *)
(* The relational tables are the state.  A table is a sequence of rows in  *)
(* insertion order (the position stands for the auto-increment row id).    *)
(* A SELECT without ORDER BY may return its rows in any order, so a read   *)
(* that returns a list is modelled by the set of lists it may return.      *)
(* Statements that fail for infrastructure reasons (connection loss, a     *)
(* failed COMMIT) are not modelled: the only statement errors are the ones *)
(* the data can cause and, with concurrent callers, a lock wait that the   *)
(* store gives up.                                                         *)
(*                                                                         *)
(* Spec and SpecTarget take each call as one step (one caller at a time).  *)
(* SpecConcurrent and SpecReader take the calls statement by statement.    *)
(***************************************************************************)
EXTENDS Integers, Sequences, FiniteSets, TLC

VARIABLES
    packs,                  \* table packs: rows [id, name, description, platform, disabled, deleted]
    scheduled_queries,      \* table scheduled_queries: rows [pack_id, query_name, name, ...]
    pack_targets,           \* table pack_targets: rows [pack_id, type, target_id]
    labels,                 \* table labels: rows [id, name, deleted]
    label_query_executions, \* table label_query_executions: set of rows [host_id, label_id, matches]
    ret,                    \* the last call: its operation, its arguments and what it returned
    txs                     \* the open transactions: each writer's and the reader's position and view

vars == <<packs, scheduled_queries, pack_targets, labels, label_query_executions, ret, txs>>

(***************************************************************************)
(* Bounds of the model.                                                    *)
(***************************************************************************)
\* Longest batch handed to ApplyPackSpecs.
MaxSpecs == 2
\* Number of rows of the hosts table (host ids 1..NumHosts).
NumHosts == 2
\* Most rows the label_query_executions table holds.
MaxExecutions == 1

(***************************************************************************)
(* Values of the program.                                                  *)
(***************************************************************************)
\* SQL NULL in an id column (row ids start at 1).
NULL == 0

\* kolide.TargetLabel and kolide.TargetHost, the values of pack_targets.type.
TargetLabel == "TargetLabel"
TargetHost == "TargetHost"

\* The hosts table: the ids of the enrolled hosts.
hosts == 1..NumHosts

\* The queries table: the names of the existing queries.
queries == {"q1", "q2"}

\* The names of the two label rows, by label id.
LabelRows == <<[id |-> 1, name |-> "l1", deleted |-> FALSE],
               [id |-> 2, name |-> "l2", deleted |-> FALSE]>>

\* error values: nil, or an error with the names its message carries.
NoError == [kind |-> "nil", pack |-> "", name |-> ""]
Error(kind, name) == [kind |-> kind, pack |-> "", name |-> name]

\* errors.Wrapf(err, "applying pack '%s'", spec.Name): the message now names the pack.
WrapApplying(err, packName) == [err EXCEPT !.pack = packName]

(***************************************************************************)
(* Inputs: pack specs (kolide.PackSpec) drawn from a small catalogue.      *)
(***************************************************************************)
\* A scheduled-query entry of a spec (kolide.QuerySpec... all ten columns but pack_id).
ScheduledQuerySpec(queryName, name, interval, snapshot) ==
    [QueryName |-> queryName, Name |-> name, Description |-> "", Interval |-> interval,
     Snapshot |-> snapshot, Removed |-> TRUE, Shard |-> NULL, Platform |-> "", Version |-> ""]

e1 == ScheduledQuerySpec("q1", "a", 60, FALSE)
e2 == ScheduledQuerySpec("q2", "b", 3600, TRUE)
e3 == ScheduledQuerySpec("q1", "c", 300, FALSE)
\* An entry whose query_name has no row in queries.
ex == ScheduledQuerySpec("qx", "d", 60, FALSE)

PackSpec(name, description, platform, qs, ls) ==
    [ID |-> 0, Name |-> name, Description |-> description, Platform |-> platform,
     Queries |-> qs, Targets |-> [Labels |-> ls]]

\* The specs a batch is made of.  For pack p1: a well-formed spec with two
\* scheduled queries and two labels (the labels not in label-id order), a
\* well-formed spec that differs from it in every field, and one that targets
\* an unknown label before a known one.  For pack p2: a well-formed spec, and
\* one that schedules an unknown query after a known one.
PackSpecs ==
    {PackSpec("p1", "d1", "darwin", <<e1, e2>>, <<"l2", "l1">>),
     PackSpec("p1", "d2", "linux", <<e2>>, <<"l1">>),
     PackSpec("p1", "d2", "linux", <<e1>>, <<"lx", "l1">>),
     PackSpec("p2", "d2", "linux", <<e2, e1>>, <<"l1">>),
     PackSpec("p2", "d1", "darwin", <<e3, ex>>, <<"l1">>)}

\* All sequences over S of length at most n.
SeqsUpTo(S, n) == UNION {[1..k -> S] : k \in 0..n}

Batches == SeqsUpTo(PackSpecs, MaxSpecs)

(***************************************************************************)
(* The statements of applyPackSpec, on the tables of a transaction         *)
(* tx = [packs, scheduled_queries, pack_targets].                          *)
(***************************************************************************)
Range(s) == {s[i] : i \in 1..Len(s)}

\* A plain INSERT into a table with no unique key on name.
UpsertPackAlwaysInsert(tx, spec) ==
    [tx EXCEPT !.packs =
        Append(tx.packs, [id |-> Len(tx.packs) + 1, name |-> spec.Name,
                          description |-> spec.Description,
                          platform |-> spec.Platform,
                          disabled |-> FALSE, deleted |-> FALSE])]

\* An upsert that rewrites the whole row of an existing name, as REPLACE would.
UpsertPackResetDisabled(tx, spec) ==
    IF \E i \in 1..Len(tx.packs) : tx.packs[i].name = spec.Name
    THEN [tx EXCEPT !.packs =
            [i \in 1..Len(tx.packs) |->
                IF tx.packs[i].name = spec.Name
                THEN [tx.packs[i] EXCEPT !.description = spec.Description,
                                         !.platform = spec.Platform,
                                         !.disabled = FALSE,
                                         !.deleted = FALSE]
                ELSE tx.packs[i]]]
    ELSE [tx EXCEPT !.packs =
            Append(tx.packs, [id |-> Len(tx.packs) + 1, name |-> spec.Name,
                              description |-> spec.Description,
                              platform |-> spec.Platform,
                              disabled |-> FALSE, deleted |-> FALSE])]

\* An upsert that updates the fields of an existing row and leaves its deleted flag.
UpsertPackKeepDeleted(tx, spec) ==
    IF \E i \in 1..Len(tx.packs) : tx.packs[i].name = spec.Name
    THEN [tx EXCEPT !.packs =
            [i \in 1..Len(tx.packs) |->
                IF tx.packs[i].name = spec.Name
                THEN [tx.packs[i] EXCEPT !.description = spec.Description,
                                         !.platform = spec.Platform]
                ELSE tx.packs[i]]]
    ELSE [tx EXCEPT !.packs =
            Append(tx.packs, [id |-> Len(tx.packs) + 1, name |-> spec.Name,
                              description |-> spec.Description,
                              platform |-> spec.Platform,
                              disabled |-> FALSE, deleted |-> FALSE])]

\* INSERT INTO packs (name, description, platform) ... ON DUPLICATE KEY UPDATE
\* name, description, platform, deleted = false.  name is the unique key; a new
\* row takes the next id and the column defaults disabled = deleted = false.
UpsertPack(tx, spec) ==
    IF \E i \in 1..Len(tx.packs) : tx.packs[i].name = spec.Name
    THEN [tx EXCEPT !.packs =
            [i \in 1..Len(tx.packs) |->
                IF tx.packs[i].name = spec.Name
                THEN [tx.packs[i] EXCEPT !.description = spec.Description,
                                         !.platform = spec.Platform,
                                         !.deleted = FALSE]
                ELSE tx.packs[i]]]
    ELSE [tx EXCEPT !.packs =
            Append(tx.packs, [id |-> Len(tx.packs) + 1, name |-> spec.Name,
                              description |-> spec.Description,
                              platform |-> spec.Platform,
                              disabled |-> FALSE, deleted |-> FALSE])]

\* SELECT id FROM packs WHERE name = ?  (NULL stands for sql.ErrNoRows).
SelectPackID(tx, name) ==
    IF \E i \in 1..Len(tx.packs) : tx.packs[i].name = name
    THEN (CHOOSE i \in 1..Len(tx.packs) : tx.packs[i].name = name)
    ELSE NULL

\* A reconciler that keeps the pack's old scheduled queries.
DeleteScheduledQueriesKeep(tx, packID) == tx

\* DELETE FROM scheduled_queries WHERE pack_id = ?
DeleteScheduledQueries(tx, packID) ==
    [tx EXCEPT !.scheduled_queries = SelectSeq(tx.scheduled_queries, LAMBDA r : r.pack_id # packID)]

\* The row INSERT INTO scheduled_queries writes for entry q.
ScheduledQueryRow(packID, q) ==
    [pack_id |-> packID, query_name |-> q.QueryName, name |-> q.Name,
     description |-> q.Description, interval |-> q.Interval, snapshot |-> q.Snapshot,
     removed |-> q.Removed, shard |-> q.Shard, platform |-> q.Platform, version |-> q.Version]

\* isChildForeignKeyError: the insert names a query_name with no row in queries.
isChildForeignKeyError(q) == q.QueryName \notin queries

\* An error that names the entry's own name instead of the query it references.
UnknownQueryErrorLocalName(q) == Error("unknown query", q.Name)

\* errors.Errorf("cannot schedule unknown query '%s'", q.QueryName)
UnknownQueryError(q) == Error("unknown query", q.QueryName)

\* The loop over spec.Queries: insert each entry, stop at the first error.
RECURSIVE InsertScheduledQueries(_, _, _)
InsertScheduledQueries(tx, packID, qs) ==
    IF qs = <<>> THEN [tx |-> tx, err |-> NoError]
    ELSE IF isChildForeignKeyError(Head(qs))
         THEN [tx |-> tx, err |-> UnknownQueryError(Head(qs))]
         ELSE InsertScheduledQueries(
                 [tx EXCEPT !.scheduled_queries = Append(@, ScheduledQueryRow(packID, Head(qs)))],
                 packID, Tail(qs))

\* DELETE FROM pack_targets WHERE pack_id = ?
\* A delete of targets with no WHERE clause.
DeletePackTargetsOfAll(tx, packID) ==
    [tx EXCEPT !.pack_targets = <<>>]

\* A delete of targets that removes only the Label-kind rows of the pack.
DeletePackTargetsLabelOnly(tx, packID) ==
    [tx EXCEPT !.pack_targets =
        SelectSeq(tx.pack_targets, LAMBDA r : r.pack_id # packID \/ r.type # TargetLabel)]

DeletePackTargets(tx, packID) ==
    [tx EXCEPT !.pack_targets = SelectSeq(tx.pack_targets, LAMBDA r : r.pack_id # packID)]

\* (SELECT id FROM labels WHERE name = ?): the id, or NULL when no row has the name.
SelectLabelID(name) ==
    IF \E i \in 1..Len(labels) : labels[i].name = name
    THEN (CHOOSE i \in 1..Len(labels) : labels[i].name = name)
    ELSE NULL

\* The pack_targets schema: a row needs the id of its pack; target_id may be NULL.
PackTargetAccepted(row) == row.pack_id # NULL

\* The loop over spec.Targets.Labels: one Label-kind row per name, target_id
\* being the id of the label of that name, NULL when there is none; only a
\* failing statement stops the loop.
RECURSIVE InsertLabelTargets(_, _, _)
InsertLabelTargets(tx, packID, ls) ==
    IF ls = <<>> THEN [tx |-> tx, err |-> NoError]
    ELSE LET row == [pack_id |-> packID, type |-> TargetLabel,
                     target_id |-> SelectLabelID(Head(ls))]
         IN  IF ~PackTargetAccepted(row)
             THEN [tx |-> tx, err |-> Error("adding label to pack", "")]
             ELSE InsertLabelTargets([tx EXCEPT !.pack_targets = Append(@, row)],
                                     packID, Tail(ls))

applyPackSpec(tx, spec) ==
    LET t1 == UpsertPack(tx, spec)
        packID == SelectPackID(t1, spec.Name)
        t2 == DeleteScheduledQueries(t1, packID)
        r3 == InsertScheduledQueries(t2, packID, spec.Queries)
        t4 == DeletePackTargets(r3.tx, packID)
    IN  IF packID = NULL THEN [tx |-> t1, err |-> Error("getting pack ID", spec.Name)]
        ELSE IF r3.err # NoError THEN r3
        ELSE InsertLabelTargets(t4, packID, spec.Targets.Labels)

\* The loop of ApplyPackSpecs over the batch: stop at the first failing spec.
RECURSIVE applyLoop(_, _)
applyLoop(tx, specs) ==
    IF specs = <<>> THEN [tx |-> tx, err |-> NoError]
    ELSE LET r == applyPackSpec(tx, Head(specs))
         IN  IF r.err # NoError
             THEN [tx |-> r.tx, err |-> WrapApplying(r.err, Head(specs).Name)]
             ELSE applyLoop(r.tx, Tail(specs))

\* A failed call that leaves committed what its statements wrote.
RollbackNothing(db, tx) == tx

\* The deferred tx.Rollback(): the committed tables are those from before the call.
Rollback(db, tx) == db

\* ApplyPackSpecs as a function of the committed tables: the tables it leaves
\* committed and the error it returns.
ApplyPackSpecsResult(db, specs) ==
    LET r == applyLoop(db, specs)
    IN  IF r.err # NoError
        THEN [db |-> Rollback(db, r.tx), err |-> r.err]
        ELSE [db |-> r.tx, err |-> NoError]

\* The committed pack tables.
DB == [packs |-> packs, scheduled_queries |-> scheduled_queries, pack_targets |-> pack_targets]

(***************************************************************************)
(* Reads.  They leave the tables alone, so each is an operator on the      *)
(* committed tables: the value (or the set of possible values) it returns. *)
(***************************************************************************)
\* The orders in which a SELECT without ORDER BY may return the rows s.
AnyOrder(s) ==
    {[i \in 1..Len(s) |-> s[p[i]]] :
        p \in {f \in [1..Len(s) -> 1..Len(s)] : \A i, j \in 1..Len(s) : f[i] = f[j] => i = j}}

\* SELECT l.name FROM labels l JOIN pack_targets pt
\* WHERE pack_id = ? AND pt.type = TargetLabel AND pt.target_id = l.id
\* (no filter on l.deleted; a NULL target_id joins no label).
SelectTargetLabelNames(db, packID) ==
    LET pts == SelectSeq(db.pack_targets,
                  LAMBDA pt : /\ pt.pack_id = packID
                              /\ pt.type = TargetLabel
                              /\ \E i \in 1..Len(labels) : labels[i].id = pt.target_id)
    IN  [i \in 1..Len(pts) |-> labels[CHOOSE k \in 1..Len(labels) : labels[k].id = pts[i].target_id].name]

\* SELECT query_name, name, description, interval, snapshot, removed, shard,
\* platform, version FROM scheduled_queries WHERE pack_id = ?
SelectPackQueries(db, packID) ==
    LET sqs == SelectSeq(db.scheduled_queries, LAMBDA r : r.pack_id = packID)
    IN  [i \in 1..Len(sqs) |->
            [QueryName |-> sqs[i].query_name, Name |-> sqs[i].name,
             Description |-> sqs[i].description, Interval |-> sqs[i].interval,
             Snapshot |-> sqs[i].snapshot, Removed |-> sqs[i].removed,
             Shard |-> sqs[i].shard, Platform |-> sqs[i].platform,
             Version |-> sqs[i].version]]

\* The specs GetPackSpecs may build for one row of packs.
SpecsOfPackRow(db, p) ==
    {[ID |-> p.id, Name |-> p.name, Description |-> p.description, Platform |-> p.platform,
      Queries |-> qs, Targets |-> [Labels |-> ls]] :
        qs \in AnyOrder(SelectPackQueries(db, p.id)),
        ls \in AnyOrder(SelectTargetLabelNames(db, p.id))}

\* GetPackSpecs: SELECT id, name, description, platform FROM packs (every row:
\* no filter on deleted), then the targets and the queries of each.  The set of
\* the lists it may return.
GetPackSpecs(db) ==
    UNION {{specs \in [1..Len(rows) -> UNION {SpecsOfPackRow(db, p) : p \in Range(rows)}] :
                \A i \in 1..Len(rows) : specs[i] \in SpecsOfPackRow(db, rows[i])} :
           rows \in AnyOrder(db.packs)}

NotFound == Error("not found", "Pack")

\* PackByName: SELECT * FROM packs WHERE name = ? AND NOT deleted;
\* sql.ErrNoRows gives (nil, false, nil).
PackByName(db, name) ==
    IF \E p \in Range(db.packs) : p.name = name /\ ~p.deleted
    THEN [pack |-> {p \in Range(db.packs) : p.name = name /\ ~p.deleted}, ok |-> TRUE, err |-> NoError]
    ELSE [pack |-> {}, ok |-> FALSE, err |-> NoError]

\* A lookup by id that forgets the deleted flag.
PackAnyRow(db, pid) ==
    IF \E p \in Range(db.packs) : p.id = pid
    THEN [pack |-> {p \in Range(db.packs) : p.id = pid}, err |-> [kind |-> "nil", pack |-> "", name |-> ""]]
    ELSE [pack |-> {}, err |-> [kind |-> "not found", pack |-> "", name |-> "Pack"]]

\* Pack: SELECT * FROM packs WHERE id = ? AND NOT deleted; sql.ErrNoRows gives notFound("Pack").
Pack(db, pid) ==
    IF \E p \in Range(db.packs) : p.id = pid /\ ~p.deleted
    THEN [pack |-> {p \in Range(db.packs) : p.id = pid /\ ~p.deleted}, err |-> NoError]
    ELSE [pack |-> {}, err |-> NotFound]

\* ListPacks: SELECT * FROM packs WHERE NOT deleted (the rows, whatever the list options' order).
ListPacks(db) == {p \in Range(db.packs) : ~p.deleted}

\* ListLabelsForPack: labels l JOIN pack_targets pt ON pt.target_id = l.id
\* WHERE pt.type = TargetLabel AND pt.pack_id = ? AND NOT l.deleted.
ListLabelsForPack(db, pid) ==
    {l \in Range(labels) :
        /\ ~l.deleted
        /\ \E pt \in Range(db.pack_targets) :
              pt.target_id = l.id /\ pt.type = TargetLabel /\ pt.pack_id = pid}

\* The join of ListPacksForHost without its filter on p.disabled.
ListPacksForHostWithDisabled(db, hid) ==
    {p \in Range(db.packs) :
        \E pt \in Range(db.pack_targets), lqe \in label_query_executions :
            /\ p.id = pt.pack_id
            /\ pt.target_id = lqe.label_id
            /\ pt.type = TargetLabel
            /\ lqe.matches
            /\ lqe.host_id = hid}

\* ListPacksForHost: SELECT DISTINCT p.* FROM packs p JOIN pack_targets pt
\* JOIN label_query_executions lqe ON (p.id = pt.pack_id AND pt.target_id =
\* lqe.label_id AND pt.type = TargetLabel AND lqe.matches)
\* WHERE lqe.host_id = ? AND NOT p.disabled.
ListPacksForHost(db, hid) ==
    {p \in Range(db.packs) :
        \E pt \in Range(db.pack_targets), lqe \in label_query_executions :
            /\ p.id = pt.pack_id
            /\ pt.target_id = lqe.label_id
            /\ pt.type = TargetLabel
            /\ lqe.matches
            /\ lqe.host_id = hid
            /\ ~p.disabled}

\* The join of ListHostsInPack without the lqe.matches condition of its label branch.
ListHostsInPackAnyExecution(db, pid) ==
    {h \in hosts :
        \E pt \in Range(db.pack_targets), lqe \in label_query_executions :
            /\ \/ /\ pt.target_id = lqe.label_id
                  /\ lqe.host_id = h
                  /\ pt.type = TargetLabel
               \/ /\ pt.target_id = h
                  /\ pt.type = TargetHost
            /\ pt.pack_id = pid}

\* ListHostsInPack: SELECT DISTINCT h.id FROM hosts h JOIN pack_targets pt
\* JOIN label_query_executions lqe ON (pt.target_id = lqe.label_id AND
\* lqe.host_id = h.id AND lqe.matches AND pt.type = TargetLabel) OR
\* (pt.target_id = h.id AND pt.type = TargetHost) WHERE pt.pack_id = ?.
\* A row of the result needs a row of each of the three joined tables.
ListHostsInPack(db, pid) ==
    {h \in hosts :
        \E pt \in Range(db.pack_targets), lqe \in label_query_executions :
            /\ \/ /\ pt.target_id = lqe.label_id
                  /\ lqe.host_id = h
                  /\ lqe.matches
                  /\ pt.type = TargetLabel
               \/ /\ pt.target_id = h
                  /\ pt.type = TargetHost
            /\ pt.pack_id = pid}

\* ListExplicitHostsInPack: hosts h JOIN pack_targets pt ON (pt.target_id = h.id
\* AND pt.type = TargetHost) WHERE pt.pack_id = ?.
ListExplicitHostsInPack(db, pid) ==
    {h \in hosts :
        \E pt \in Range(db.pack_targets) :
            pt.target_id = h /\ pt.type = TargetHost /\ pt.pack_id = pid}

(***************************************************************************)
(* Writes: the actions.                                                    *)
(***************************************************************************)
Returned(op, specs, id, err) == [op |-> op, specs |-> specs, id |-> id, err |-> err]

\* The callers that may hold an ApplyPackSpecs transaction open at one time.
Writers == {"w1", "w2"}

\* An empty set of tables.
NoRows == [packs |-> <<>>, scheduled_queries |-> <<>>, pack_targets |-> <<>>]

\* A caller with no transaction open: specs, err and overlapped are those of
\* its last call.
ClosedTx(specs, err, overlapped) ==
    [pc |-> "idle", specs |-> specs, i |-> 1, j |-> 1, packID |-> NULL,
     seen |-> NoRows, tx |-> NoRows, locked |-> {}, overlapped |-> overlapped, err |-> err]

\* The reader with no GetPackSpecs in progress.
IdleReader == [pc |-> "idle", i |-> 1, specs |-> <<>>, versions |-> {}]

NoTransactions ==
    [writer |-> [w \in Writers |-> ClosedTx(<<>>, NoError, FALSE)], reader |-> IdleReader]

Init ==
    /\ packs = <<>>
    /\ scheduled_queries = <<>>
    /\ pack_targets = <<>>
    /\ labels = LabelRows
    /\ label_query_executions = {}
    /\ ret = Returned("none", <<>>, NULL, NoError)
    /\ txs = NoTransactions

\* ApplyPackSpecs(specs): one transaction over the whole batch.
ApplyPackSpecs(specs) ==
    \E r \in {ApplyPackSpecsResult(DB, specs)} :
        /\ packs' = r.db.packs
        /\ scheduled_queries' = r.db.scheduled_queries
        /\ pack_targets' = r.db.pack_targets
        /\ ret' = Returned("ApplyPackSpecs", specs, NULL, r.err)
        /\ UNCHANGED <<labels, label_query_executions, txs>>

\* deleteEntity("packs", pid): the soft delete sets the row's deleted flag; with
\* no row of that id it reports not found.
deleteEntity(rows, id) ==
    IF \E i \in 1..Len(rows) : rows[i].id = id
    THEN [rows |-> [i \in 1..Len(rows) |->
                        IF rows[i].id = id THEN [rows[i] EXCEPT !.deleted = TRUE] ELSE rows[i]],
          err |-> NoError]
    ELSE [rows |-> rows, err |-> NotFound]

\* DeletePack(pid).
DeletePack(pid) ==
    \E r \in {deleteEntity(packs, pid)} :
        /\ packs' = r.rows
        /\ ret' = Returned("DeletePack", <<>>, pid, r.err)
        /\ UNCHANGED <<scheduled_queries, pack_targets, labels, label_query_executions, txs>>

\* Pack ids a caller may pass: the ids of the rows and one id past them.
PackIDs == 1..(Len(packs) + 1)

Next ==
    \/ \E specs \in Batches : ApplyPackSpecs(specs)
    \/ \E pid \in PackIDs : DeletePack(pid)

Spec == Init /\ [][Next]_vars

(***************************************************************************)
(* The writers outside the reconciler, for the targeting reads: the host   *)
(* report path writes label_query_executions, labels are soft-deleted,     *)
(* packs get explicit host targets and are disabled.                       *)
(***************************************************************************)
\* The host report path records the latest evaluation of label labelID on host
\* hostID: one row per (host, label), overwritten by the next evaluation.
RecordLabelQueryExecution(hostID, labelID, matches) ==
    LET others == {r \in label_query_executions : r.host_id # hostID \/ r.label_id # labelID}
    IN  /\ Cardinality(others) < MaxExecutions
        /\ label_query_executions' =
              others \cup {[host_id |-> hostID, label_id |-> labelID, matches |-> matches]}
        /\ ret' = Returned("RecordLabelQueryExecution", <<>>, NULL, NoError)
        /\ UNCHANGED <<packs, scheduled_queries, pack_targets, labels, txs>>

\* DeleteLabel(name): the soft delete of the label row of that name.
DeleteLabel(name) ==
    \E r \in {deleteEntity(labels, SelectLabelID(name))} :
        /\ labels' = r.rows
        /\ ret' = Returned("DeleteLabel", <<>>, SelectLabelID(name), r.err)
        /\ UNCHANGED <<packs, scheduled_queries, pack_targets, label_query_executions, txs>>

\* A Host-kind target row of pack pid on host hid (one row per pack and host).
AddHostToPack(pid, hid) ==
    /\ \E p \in Range(packs) : p.id = pid
    /\ ~\E pt \in Range(pack_targets) :
            pt.pack_id = pid /\ pt.type = TargetHost /\ pt.target_id = hid
    /\ pack_targets' = Append(pack_targets, [pack_id |-> pid, type |-> TargetHost, target_id |-> hid])
    /\ ret' = Returned("AddHostToPack", <<>>, NULL, NoError)
    /\ UNCHANGED <<packs, scheduled_queries, labels, label_query_executions, txs>>

\* The disabled flag of pack pid is set to b.
SetPackDisabled(pid, b) ==
    /\ \E p \in Range(packs) : p.id = pid
    /\ packs' = [i \in 1..Len(packs) |->
                    IF packs[i].id = pid THEN [packs[i] EXCEPT !.disabled = b] ELSE packs[i]]
    /\ ret' = Returned("SetPackDisabled", <<>>, NULL, NoError)
    /\ UNCHANGED <<scheduled_queries, pack_targets, labels, label_query_executions, txs>>

\* The batches of the targeting specification: one well-formed spec of pack p1.
TargetBatches == {specs \in SeqsUpTo(PackSpecs, 1) :
                    \A i \in 1..Len(specs) :
                        /\ specs[i].Name = "p1"
                        /\ \A l \in Range(specs[i].Targets.Labels) : SelectLabelID(l) # NULL}

NextTarget ==
    \/ \E specs \in TargetBatches : ApplyPackSpecs(specs)
    \/ \E pid \in PackIDs : DeletePack(pid)
    \/ \E h \in hosts, l \in 1..Len(labels), m \in BOOLEAN : RecordLabelQueryExecution(h, l, m)
    \/ \E name \in {"l1", "l2"} : DeleteLabel(name)
    \/ \E pid \in PackIDs, h \in hosts : AddHostToPack(pid, h)
    \/ \E pid \in PackIDs, b \in BOOLEAN : SetPackDisabled(pid, b)

SpecTarget == Init /\ [][NextTarget]_vars

(***************************************************************************)
(* Concurrent callers, statement by statement (specification               *)
(* SpecConcurrent).  The store gives read-committed isolation: a statement *)
(* sees the rows committed so far and the writes of its own transaction,   *)
(* and a row written by a transaction stays locked until that transaction  *)
(* commits or rolls back.  Every pack the callers name has its row before  *)
(* the first transaction begins, so no two transactions allocate ids.      *)
(***************************************************************************)
\* The rows the upsert of applyPackSpec writes, and so locks: the packs row
\* of the spec's name.
UpsertLocksNothing(spec) == {}

UpsertLocks(spec) == {spec.Name}

\* What a statement of a transaction sees: the committed tables db with the
\* transaction's own writes, which are the difference between tx (its copy
\* after its last statement) and seen (the committed tables at that statement).
View(db, seen, tx) ==
    [packs |->
        [i \in 1..Len(db.packs) |->
            IF i <= Len(seen.packs) /\ i <= Len(tx.packs) /\ tx.packs[i] # seen.packs[i]
            THEN tx.packs[i] ELSE db.packs[i]]
        \o SubSeq(tx.packs, Len(seen.packs) + 1, Len(tx.packs)),
     scheduled_queries |->
        SelectSeq(db.scheduled_queries,
                  LAMBDA r : r \notin Range(seen.scheduled_queries) \ Range(tx.scheduled_queries))
        \o SelectSeq(tx.scheduled_queries, LAMBDA r : r \notin Range(seen.scheduled_queries)),
     pack_targets |->
        SelectSeq(db.pack_targets,
                  LAMBDA r : r \notin Range(seen.pack_targets) \ Range(tx.pack_targets))
        \o SelectSeq(tx.pack_targets, LAMBDA r : r \notin Range(seen.pack_targets))]

ViewOf(w) == View(DB, txs.writer[w].seen, txs.writer[w].tx)

\* The packs row of name n is locked by a transaction other than w's.
LockedByOther(w, n) == \E o \in Writers \ {w} : n \in txs.writer[o].locked

\* The spec a writer is applying.
CurrentSpec(w) == txs.writer[w].specs[txs.writer[w].i]

\* Writer w moves on: its copy is t, taken from the tables committed now.
Executed(w, t, pc, j) ==
    /\ txs' = [txs EXCEPT !.writer[w].tx = t, !.writer[w].seen = DB,
                          !.writer[w].pc = pc, !.writer[w].j = j]
    /\ UNCHANGED <<packs, scheduled_queries, pack_targets, labels, label_query_executions, ret>>

\* The statement of w failed with err while applying the current spec:
\* ApplyPackSpecs wraps the error and the deferred Rollback undoes the writes.
Failed(w, err) ==
    \E r \in {Rollback(DB, ViewOf(w))}, e \in {WrapApplying(err, CurrentSpec(w).Name)} :
        /\ packs' = r.packs
        /\ scheduled_queries' = r.scheduled_queries
        /\ pack_targets' = r.pack_targets
        /\ txs' = [txs EXCEPT !.writer[w] = ClosedTx(txs.writer[w].specs, e, txs.writer[w].overlapped)]
        /\ ret' = Returned("ApplyPackSpecs", txs.writer[w].specs, NULL, e)
        /\ UNCHANGED <<labels, label_query_executions>>

\* tx, err := d.db.Beginx()
BeginApply(w, specs) ==
    /\ txs.writer[w].pc = "idle"
    /\ txs' = [txs EXCEPT !.writer[w] =
                [pc |-> IF specs = <<>> THEN "commit" ELSE "upsert", specs |-> specs,
                 i |-> 1, j |-> 1, packID |-> NULL, seen |-> DB, tx |-> DB,
                 locked |-> {}, overlapped |-> FALSE, err |-> NoError]]
    /\ UNCHANGED <<packs, scheduled_queries, pack_targets, labels, label_query_executions, ret>>

\* INSERT INTO packs ... ON DUPLICATE KEY UPDATE ...: waits while another
\* transaction holds the lock of the row.
ExecUpsertPack(w) ==
    /\ txs.writer[w].pc = "upsert"
    /\ \A n \in UpsertLocks(CurrentSpec(w)) : ~LockedByOther(w, n)
    /\ txs' = [txs EXCEPT !.writer[w].tx = UpsertPack(ViewOf(w), CurrentSpec(w)),
                          !.writer[w].seen = DB,
                          !.writer[w].locked = @ \cup UpsertLocks(CurrentSpec(w)),
                          !.writer[w].pc = "select id"]
    /\ UNCHANGED <<packs, scheduled_queries, pack_targets, labels, label_query_executions, ret>>

\* The store gives up the wait for a row lock (lock wait timeout, or a
\* deadlock it resolves): the statement fails and the transaction rolls back.
LockWaitTimeout(w) ==
    /\ txs.writer[w].pc = "upsert"
    /\ \E n \in UpsertLocks(CurrentSpec(w)) : LockedByOther(w, n)
    /\ Failed(w, Error("lock wait timeout", ""))

\* SELECT id FROM packs WHERE name = ?
ExecSelectPackID(w) ==
    /\ txs.writer[w].pc = "select id"
    /\ \E id \in {SelectPackID(ViewOf(w), CurrentSpec(w).Name)} :
          IF id = NULL
          THEN Failed(w, Error("getting pack ID", CurrentSpec(w).Name))
          ELSE /\ txs' = [txs EXCEPT !.writer[w].packID = id, !.writer[w].tx = ViewOf(w),
                                     !.writer[w].seen = DB,
                                     !.writer[w].pc = "delete queries"]
               /\ UNCHANGED <<packs, scheduled_queries, pack_targets, labels,
                              label_query_executions, ret>>

\* DELETE FROM scheduled_queries WHERE pack_id = ?
ExecDeleteScheduledQueries(w) ==
    /\ txs.writer[w].pc = "delete queries"
    /\ Executed(w, DeleteScheduledQueries(ViewOf(w), txs.writer[w].packID),
                IF CurrentSpec(w).Queries = <<>> THEN "delete targets" ELSE "insert query", 1)

\* One turn of the loop over spec.Queries: INSERT INTO scheduled_queries ...
ExecInsertScheduledQuery(w) ==
    /\ txs.writer[w].pc = "insert query"
    /\ \E r \in {InsertScheduledQueries(ViewOf(w), txs.writer[w].packID,
                                        <<CurrentSpec(w).Queries[txs.writer[w].j]>>)} :
          IF r.err # NoError
          THEN Failed(w, r.err)
          ELSE IF txs.writer[w].j < Len(CurrentSpec(w).Queries)
               THEN Executed(w, r.tx, "insert query", txs.writer[w].j + 1)
               ELSE Executed(w, r.tx, "delete targets", 1)

\* DELETE FROM pack_targets WHERE pack_id = ?
ExecDeletePackTargets(w) ==
    /\ txs.writer[w].pc = "delete targets"
    /\ Executed(w, DeletePackTargets(ViewOf(w), txs.writer[w].packID),
                IF CurrentSpec(w).Targets.Labels = <<>> THEN "next spec" ELSE "insert target", 1)

\* One turn of the loop over spec.Targets.Labels: INSERT INTO pack_targets ...
ExecInsertLabelTarget(w) ==
    /\ txs.writer[w].pc = "insert target"
    /\ \E r \in {InsertLabelTargets(ViewOf(w), txs.writer[w].packID,
                                    <<CurrentSpec(w).Targets.Labels[txs.writer[w].j]>>)} :
          IF r.err # NoError
          THEN Failed(w, r.err)
          ELSE IF txs.writer[w].j < Len(CurrentSpec(w).Targets.Labels)
               THEN Executed(w, r.tx, "insert target", txs.writer[w].j + 1)
               ELSE Executed(w, r.tx, "next spec", 1)

\* The loop of ApplyPackSpecs over specs moves to the next spec, or leaves.
NextSpec(w) ==
    /\ txs.writer[w].pc = "next spec"
    /\ txs' = [txs EXCEPT !.writer[w].i = IF @ < Len(txs.writer[w].specs) THEN @ + 1 ELSE @,
                          !.writer[w].pc = IF txs.writer[w].i < Len(txs.writer[w].specs)
                                           THEN "upsert" ELSE "commit"]
    /\ UNCHANGED <<packs, scheduled_queries, pack_targets, labels, label_query_executions, ret>>

\* The reader's record of the table versions committed while it reads.
Versions(r, db) ==
    IF r.pc \in {"packs", "targets", "queries"} THEN r.versions \cup {db} ELSE r.versions

\* err = tx.Commit(): the writes of w become the committed rows and its locks
\* are released.
CommitApply(w) ==
    /\ txs.writer[w].pc = "commit"
    /\ \E v \in {ViewOf(w)} :
          /\ packs' = v.packs
          /\ scheduled_queries' = v.scheduled_queries
          /\ pack_targets' = v.pack_targets
          /\ txs' = [writer |->
                        [o \in Writers |->
                            IF o = w THEN ClosedTx(txs.writer[w].specs, NoError, txs.writer[w].overlapped)
                            ELSE IF txs.writer[o].pc # "idle"
                                 THEN [txs.writer[o] EXCEPT !.overlapped = TRUE]
                                 ELSE txs.writer[o]],
                     reader |-> [txs.reader EXCEPT !.versions = Versions(txs.reader, v)]]
    /\ ret' = Returned("ApplyPackSpecs", txs.writer[w].specs, NULL, NoError)
    /\ UNCHANGED <<labels, label_query_executions>>

\* GetPackSpecs: tx, err := d.db.Beginx()
BeginGetPackSpecs ==
    /\ txs.reader.pc \in {"idle", "returned"}
    /\ txs' = [txs EXCEPT !.reader = [pc |-> "packs", i |-> 1, specs |-> <<>>, versions |-> {DB}]]
    /\ UNCHANGED <<packs, scheduled_queries, pack_targets, labels, label_query_executions, ret>>

\* SELECT id, name, description, platform FROM packs
ReadPacks ==
    /\ txs.reader.pc = "packs"
    /\ txs' = [txs EXCEPT
                !.reader.specs =
                    [i \in 1..Len(packs) |->
                        [ID |-> packs[i].id, Name |-> packs[i].name,
                         Description |-> packs[i].description, Platform |-> packs[i].platform,
                         Queries |-> <<>>, Targets |-> [Labels |-> <<>>]]],
                !.reader.pc = IF packs = <<>> THEN "commit" ELSE "targets"]
    /\ UNCHANGED <<packs, scheduled_queries, pack_targets, labels, label_query_executions, ret>>

\* One turn of the "Load targets" loop.
ReadTargets ==
    /\ txs.reader.pc = "targets"
    /\ txs' = [txs EXCEPT
                !.reader.specs[txs.reader.i].Targets.Labels =
                    SelectTargetLabelNames(DB, txs.reader.specs[txs.reader.i].ID),
                !.reader.i = IF @ < Len(txs.reader.specs) THEN @ + 1 ELSE 1,
                !.reader.pc = IF txs.reader.i < Len(txs.reader.specs) THEN "targets" ELSE "queries"]
    /\ UNCHANGED <<packs, scheduled_queries, pack_targets, labels, label_query_executions, ret>>

\* One turn of the "Load queries" loop.
ReadQueries ==
    /\ txs.reader.pc = "queries"
    /\ txs' = [txs EXCEPT
                !.reader.specs[txs.reader.i].Queries =
                    SelectPackQueries(DB, txs.reader.specs[txs.reader.i].ID),
                !.reader.i = IF @ < Len(txs.reader.specs) THEN @ + 1 ELSE 1,
                !.reader.pc = IF txs.reader.i < Len(txs.reader.specs) THEN "queries" ELSE "commit"]
    /\ UNCHANGED <<packs, scheduled_queries, pack_targets, labels, label_query_executions, ret>>

\* GetPackSpecs: err = tx.Commit(); return specs, nil
ReturnGetPackSpecs ==
    /\ txs.reader.pc = "commit"
    /\ txs' = [txs EXCEPT !.reader.pc = "returned"]
    /\ ret' = Returned("GetPackSpecs", txs.reader.specs, NULL, NoError)
    /\ UNCHANGED <<packs, scheduled_queries, pack_targets, labels, label_query_executions>>

\* The labels of a spec that have no row in labels.
UnknownLabelsOf(s) == {l \in Range(s.Targets.Labels) : SelectLabelID(l) = NULL}

\* The specs of the catalogue the concurrent callers apply.
SpecOf(name, description) ==
    CHOOSE s \in PackSpecs :
        s.Name = name /\ s.Description = description /\ UnknownLabelsOf(s) = {}

\* The batches of the concurrent callers.
WriterBatches ==
    {<<SpecOf("p1", "d1")>>,
     <<SpecOf("p1", "d2")>>,
     <<SpecOf("p2", "d2"), SpecOf("p1", "d2")>>,
     <<SpecOf("p1", "d1"), SpecOf("p2", "d1")>>}

\* Both packs are stored, as after ApplyPackSpecs of the two specs.
InitConcurrent ==
    /\ labels = LabelRows
    /\ label_query_executions = {}
    /\ ret = Returned("none", <<>>, NULL, NoError)
    /\ txs = NoTransactions
    /\ \E r \in {ApplyPackSpecsResult(NoRows, <<SpecOf("p1", "d1"), SpecOf("p2", "d2")>>)} :
          /\ packs = r.db.packs
          /\ scheduled_queries = r.db.scheduled_queries
          /\ pack_targets = r.db.pack_targets

\* Two callers of ApplyPackSpecs at once.
NextConcurrent ==
    \/ \E w \in Writers, specs \in WriterBatches : BeginApply(w, specs)
    \/ \E w \in Writers : ExecUpsertPack(w)
    \/ \E w \in Writers : LockWaitTimeout(w)
    \/ \E w \in Writers : ExecSelectPackID(w)
    \/ \E w \in Writers : ExecDeleteScheduledQueries(w)
    \/ \E w \in Writers : ExecInsertScheduledQuery(w)
    \/ \E w \in Writers : ExecDeletePackTargets(w)
    \/ \E w \in Writers : ExecInsertLabelTarget(w)
    \/ \E w \in Writers : NextSpec(w)
    \/ \E w \in Writers : CommitApply(w)

SpecConcurrent == InitConcurrent /\ [][NextConcurrent]_vars

\* One caller of ApplyPackSpecs and one caller of GetPackSpecs at once.
NextReader ==
    \/ \E specs \in WriterBatches : BeginApply("w1", specs)
    \/ ExecUpsertPack("w1")
    \/ ExecSelectPackID("w1")
    \/ ExecDeleteScheduledQueries("w1")
    \/ ExecInsertScheduledQuery("w1")
    \/ ExecDeletePackTargets("w1")
    \/ ExecInsertLabelTarget("w1")
    \/ NextSpec("w1")
    \/ CommitApply("w1")
    \/ BeginGetPackSpecs
    \/ ReadPacks
    \/ ReadTargets
    \/ ReadQueries
    \/ ReturnGetPackSpecs

SpecReader == InitConcurrent /\ [][NextReader]_vars

(***************************************************************************)
(* Properties of the reconciler (specification Spec).                      *)
(***************************************************************************)
PackNamesOf(specs) == {specs[i].Name : i \in 1..Len(specs)}
UnknownQueries(spec) == {i \in 1..Len(spec.Queries) : spec.Queries[i].QueryName \notin queries}
UnknownLabels(spec) == {i \in 1..Len(spec.Targets.Labels) : SelectLabelID(spec.Targets.Labels[i]) = NULL}
Min(S) == CHOOSE x \in S : \A y \in S : x <= y

\* C1: a failed ApplyPackSpecs leaves packs, scheduled_queries and pack_targets
\* exactly as they were before the call, whichever spec of the batch failed.
C1_Atomicity ==
    [][(ret'.op = "ApplyPackSpecs" /\ ret'.err # NoError)
         => UNCHANGED <<packs, scheduled_queries, pack_targets>>]_vars

\* The second spec of a batch failed and the pack of the first spec does not exist.
C1_Witness ==
    /\ ret.op = "ApplyPackSpecs"
    /\ ret.err # NoError
    /\ Len(ret.specs) >= 2
    /\ ret.err.pack = ret.specs[2].Name
    /\ ret.specs[1].Name # ret.specs[2].Name
    /\ UnknownQueries(ret.specs[1]) = {}
    /\ ~\E p \in Range(packs) : p.name = ret.specs[1].Name

\* Two specs are the same pack spec, the surrogate ID apart.
SameSpec(a, b) ==
    /\ a.Name = b.Name
    /\ a.Description = b.Description
    /\ a.Platform = b.Platform
    /\ a.Queries = b.Queries
    /\ a.Targets.Labels = b.Targets.Labels

WellFormed(specs) ==
    /\ \A i, j \in 1..Len(specs) : specs[i].Name = specs[j].Name => i = j
    /\ \A i \in 1..Len(specs) : UnknownQueries(specs[i]) = {} /\ UnknownLabels(specs[i]) = {}

\* C4: after a well-formed batch is applied to a store with no other packs,
\* every list GetPackSpecs may return has one spec per input spec, equal to it
\* field by field, the scheduled queries and the labels in the order submitted.
C4_RoundTrip ==
    (/\ ret.op = "ApplyPackSpecs"
     /\ ret.err = NoError
     /\ WellFormed(ret.specs)
     /\ \A p \in Range(packs) : p.name \in PackNamesOf(ret.specs))
    => \A got \in GetPackSpecs(DB) :
          /\ Len(got) = Len(ret.specs)
          /\ \A i \in 1..Len(ret.specs) : \E j \in 1..Len(got) : SameSpec(ret.specs[i], got[j])

\* What the reads show of the packs: every pack row with its flags, whether
\* the lookups and the listing return it, and per pack the scheduled queries,
\* the target labels and the explicit hosts.
Observable(db) ==
    {[pack |-> p,
      listed |-> p \in ListPacks(db),
      byID |-> Pack(db, p.id),
      byName |-> PackByName(db, p.name),
      queries |-> Range(SelectPackQueries(db, p.id)),
      labels |-> Range(SelectTargetLabelNames(db, p.id)),
      explicit |-> ListExplicitHostsInPack(db, p.id)] : p \in Range(db.packs)}

\* C5: in every reachable state, applying any list GetPackSpecs may return
\* succeeds and leaves what the reads show unchanged.
C5_ApplyGetNoOp ==
    \A got \in GetPackSpecs(DB) :
        \E r \in {ApplyPackSpecsResult(DB, got)} :
            r.err = NoError /\ Observable(r.db) = Observable(DB)

\* C6: applying the batch of the last ApplyPackSpecs call once more returns the
\* same error and leaves the same rows in packs, scheduled_queries and
\* pack_targets (the row ids of the re-inserted children apart), so that
\* GetPackSpecs may return the same lists.
C6_Idempotence ==
    ret.op = "ApplyPackSpecs"
    => \E r \in {ApplyPackSpecsResult(DB, ret.specs)} :
          /\ r.err = ret.err
          /\ r.db = DB
          /\ GetPackSpecs(r.db) = GetPackSpecs(DB)

\* A batch of two specs was applied and left scheduled queries and targets.
C6_Witness ==
    /\ ret.op = "ApplyPackSpecs"
    /\ ret.err = NoError
    /\ Len(ret.specs) = 2
    /\ \A i \in 1..2 : \E sq \in Range(scheduled_queries), pt \in Range(pack_targets) :
          /\ sq.pack_id = SelectPackID(DB, ret.specs[i].Name)
          /\ pt.pack_id = SelectPackID(DB, ret.specs[i].Name)

\* C7: a batch with an unknown label name is rejected, and no pack_targets row
\* with a NULL target_id is ever committed.
C7_UnknownLabelRejected ==
    /\ \A pt \in Range(pack_targets) : pt.target_id # NULL
    /\ (ret.op = "ApplyPackSpecs" /\ \E i \in 1..Len(ret.specs) : UnknownLabels(ret.specs[i]) # {})
          => ret.err # NoError

\* The first spec of the batch that schedules an unknown query.
FirstUnknownQuerySpec(specs) == Min({i \in 1..Len(specs) : UnknownQueries(specs[i]) # {}})

\* C8: an ApplyPackSpecs whose batch schedules an unknown query returns the
\* "unknown query" error naming that query and the pack being applied, and
\* leaves no scheduled_queries row it wrote.
C8_UnknownQueryRejected ==
    [][(ret'.op = "ApplyPackSpecs" /\ \E i \in 1..Len(ret'.specs) : UnknownQueries(ret'.specs[i]) # {})
         => LET spec == ret'.specs[FirstUnknownQuerySpec(ret'.specs)]
            IN  /\ ret'.err.kind = "unknown query"
                /\ ret'.err.name = spec.Queries[Min(UnknownQueries(spec))].QueryName
                /\ ret'.err.pack = spec.Name
                /\ scheduled_queries' = scheduled_queries]_vars

\* The unknown query came after a known entry of the same spec, whose pack
\* exists and holds none of that spec's entries.
C8_Witness ==
    /\ ret.op = "ApplyPackSpecs"
    /\ ret.err = [kind |-> "unknown query", pack |-> "p2", name |-> "qx"]
    /\ \E i \in 1..Len(ret.specs) :
          /\ ret.specs[i].Name = "p2"
          /\ 1 \notin UnknownQueries(ret.specs[i])
          /\ 2 \in UnknownQueries(ret.specs[i])
          /\ \E p \in Range(packs) : p.name = "p2"
          /\ ~\E sq \in Range(scheduled_queries) :
                /\ sq.pack_id = SelectPackID(DB, "p2")
                /\ sq.name = ret.specs[i].Queries[1].Name
                /\ sq.query_name = ret.specs[i].Queries[1].QueryName

(***************************************************************************)
(* Properties of the targeting reads (specification SpecTarget).           *)
(***************************************************************************)
\* Pack pid has a Host-kind target on host h.
ExplicitlyTargeted(pid, h) ==
    \E pt \in Range(pack_targets) : pt.pack_id = pid /\ pt.type = TargetHost /\ pt.target_id = h

\* Pack pid has a Label-kind target on a label of the set ls whose
\* label_query_executions row for host h has matches = true.
MatchesLabelTarget(pid, h, ls) ==
    \E pt \in Range(pack_targets), l \in ls :
        /\ pt.pack_id = pid /\ pt.type = TargetLabel /\ pt.target_id = l.id
        /\ [host_id |-> h, label_id |-> l.id, matches |-> TRUE] \in label_query_executions

\* C2: ListHostsInPack(P) is the union of the explicitly targeted hosts and the
\* hosts with a matching row for a targeted label.
C2_TargetingUnion ==
    \A p \in Range(packs) :
        ListHostsInPack(DB, p.id) =
            {h \in hosts : ExplicitlyTargeted(p.id, h) \/ MatchesLabelTarget(p.id, h, Range(labels))}

\* C3: ListPacksForHost(h) is the set of non-disabled packs that h matches by an
\* explicit target or a matching label target: those with h in ListHostsInPack.
C3_PacksForHost ==
    \A h \in hosts :
        /\ ListPacksForHost(DB, h) =
              {p \in Range(packs) :
                  /\ ~p.disabled
                  /\ ExplicitlyTargeted(p.id, h) \/ MatchesLabelTarget(p.id, h, Range(labels))}
        /\ \A p \in Range(packs) :
              ~p.disabled => (p \in ListPacksForHost(DB, h) <=> h \in ListHostsInPack(DB, p.id))

\* C9: a soft-deleted label contributes no host: ListHostsInPack(P) holds only
\* explicitly targeted hosts and hosts matching a targeted label that is not deleted.
C9_StalenessTolerance ==
    \A p \in Range(packs) :
        ListHostsInPack(DB, p.id) \subseteq
            {h \in hosts :
                \/ ExplicitlyTargeted(p.id, h)
                \/ MatchesLabelTarget(p.id, h, {l \in Range(labels) : ~l.deleted})}

\* C10: a soft-deleted pack is returned by none of GetPackSpecs,
\* ListPacksForHost, ListPacks, Pack and PackByName.
C10_DeletedPackExcluded ==
    \A p \in Range(packs) :
        p.deleted =>
            /\ \A got \in GetPackSpecs(DB) : \A i \in 1..Len(got) : got[i].Name # p.name
            /\ \A h \in hosts : p \notin ListPacksForHost(DB, h)
            /\ p \notin ListPacks(DB)
            /\ Pack(DB, p.id).err = NotFound
            /\ ~PackByName(DB, p.name).ok

(***************************************************************************)
(* More properties of the reconciler (specification Spec).                 *)
(***************************************************************************)
\* The spec of the batch that is applied last for pack name n.
LastSpecNamed(specs, n) ==
    specs[CHOOSE i \in 1..Len(specs) :
            /\ specs[i].Name = n
            /\ \A j \in 1..Len(specs) : specs[j].Name = n => j <= i]

\* The scheduled_queries rows and the pack_targets rows of a spec applied to pack id.
SpecQueryRows(id, spec) ==
    [i \in 1..Len(spec.Queries) |-> ScheduledQueryRow(id, spec.Queries[i])]
SpecTargetRows(id, spec) ==
    [i \in 1..Len(spec.Targets.Labels) |->
        [pack_id |-> id, type |-> TargetLabel, target_id |-> SelectLabelID(spec.Targets.Labels[i])]]

\* The rows of a child table that belong to pack id.
RowsOfPack(rows, id) == SelectSeq(rows, LAMBDA r : r.pack_id = id)

\* C11: an ApplyPackSpecs never fails on a duplicate key (it fails only on an
\* unknown query), and when it succeeds every pack that was soft-deleted and
\* is named in the batch keeps its one row and id, takes the description and
\* platform of its spec, is no longer deleted, is returned again by Pack,
\* PackByName and ListPacks, and has exactly the children of its spec.
C11_Resurrection ==
    [][(ret'.op = "ApplyPackSpecs")
        => /\ ret'.err.kind \in {"nil", "unknown query"}
           /\ (\A i \in 1..Len(ret'.specs) : UnknownQueries(ret'.specs[i]) = {}) => ret'.err = NoError
           /\ ret'.err = NoError =>
                \A p \in Range(packs) :
                    (p.deleted /\ p.name \in PackNamesOf(ret'.specs)) =>
                        LET spec == LastSpecNamed(ret'.specs, p.name)
                            row == [p EXCEPT !.description = spec.Description,
                                             !.platform = spec.Platform,
                                             !.deleted = FALSE]
                        IN  /\ {q \in Range(packs') : q.name = p.name} = {row}
                            /\ Cardinality({i \in 1..Len(packs') : packs'[i].name = p.name}) = 1
                            /\ Pack(DB', p.id) = [pack |-> {row}, err |-> NoError]
                            /\ PackByName(DB', p.name) = [pack |-> {row}, ok |-> TRUE, err |-> NoError]
                            /\ row \in ListPacks(DB')
                            /\ RowsOfPack(scheduled_queries', p.id) = SpecQueryRows(p.id, spec)
                            /\ RowsOfPack(pack_targets', p.id) = SpecTargetRows(p.id, spec)]_vars

\* A pack has just been soft-deleted, and applying a spec of its name with
\* another description succeeds and makes it visible again under the same id.
C11_Witness ==
    /\ ret.op = "DeletePack"
    /\ ret.err = NoError
    /\ \E p \in Range(packs), specs \in Batches :
          /\ p.id = ret.id
          /\ p.deleted
          /\ Pack(DB, p.id).err = NotFound
          /\ Len(specs) = 1
          /\ specs[1].Name = p.name
          /\ specs[1].Description # p.description
          /\ \E r \in {ApplyPackSpecsResult(DB, specs)} :
                /\ r.err = NoError
                /\ Pack(r.db, p.id).err = NoError
                /\ \A q \in Pack(r.db, p.id).pack : q.description = specs[1].Description

\* C12: a pack id or name with no row, or with a soft-deleted row, gets the
\* not-found outcome from Pack, (nil, false, nil) from PackByName and is not in
\* ListPacks; DeletePack removes no row of packs, scheduled_queries or pack_targets.
C12_NotFound ==
    [][/\ \A pid \in 1..(Len(packs') + 1) :
            (\A p \in Range(packs') : p.id = pid => p.deleted)
                => Pack(DB', pid) = [pack |-> {}, err |-> NotFound]
       /\ \A n \in {"p1", "p2", "p3"} :
            (\A p \in Range(packs') : p.name = n => p.deleted)
                => /\ PackByName(DB', n) = [pack |-> {}, ok |-> FALSE, err |-> NoError]
                   /\ \A p \in ListPacks(DB') : p.name # n
       /\ ret'.op = "DeletePack" =>
            /\ Len(packs') = Len(packs)
            /\ \A i \in 1..Len(packs) : packs'[i] = packs[i] \/ packs'[i] = [packs[i] EXCEPT !.deleted = TRUE]
            /\ scheduled_queries' = scheduled_queries
            /\ pack_targets' = pack_targets]_vars

\* A pack with children has just been soft-deleted: the lookups do not find
\* it, and its row, scheduled queries and targets are still stored.
C12_Witness ==
    /\ ret.op = "DeletePack"
    /\ ret.err = NoError
    /\ \E p \in Range(packs) :
          /\ p.id = ret.id /\ p.deleted
          /\ Pack(DB, p.id) = [pack |-> {}, err |-> NotFound]
          /\ ~PackByName(DB, p.name).ok
          /\ p \notin ListPacks(DB)
          /\ RowsOfPack(scheduled_queries, p.id) # <<>>
          /\ RowsOfPack(pack_targets, p.id) # <<>>
    /\ Pack(DB, Len(packs) + 1).err = NotFound

\* C17: packs never holds two rows of one name, whatever ApplyPackSpecs
\* (batches that name a pack twice included) and DeletePack calls were made,
\* so PackByName selects at most one row.
C17_NameUnique ==
    /\ \A i, j \in 1..Len(packs) : packs[i].name = packs[j].name => i = j
    /\ \A n \in {"p1", "p2"} : Cardinality(PackByName(DB, n).pack) <= 1

\* A successful batch has just applied two specs of one name, to a pack
\* that was there or not, and packs holds one row of that name.
C17_Witness ==
    /\ ret.op = "ApplyPackSpecs"
    /\ ret.err = NoError
    /\ Len(ret.specs) = 2
    /\ ret.specs[1].Name = ret.specs[2].Name
    /\ ret.specs[1] # ret.specs[2]
    /\ Cardinality({i \in 1..Len(packs) : packs[i].name = ret.specs[1].Name}) = 1
    /\ Len(packs) = 2

\* C19: an ApplyPackSpecs, successful or failed, leaves every pack whose
\* name is not in the batch with the same row, the same scheduled queries and
\* the same targets, and writes no label and no label_query_executions row.
C19_Frame ==
    [][(ret'.op = "ApplyPackSpecs")
        => /\ \A i \in 1..Len(packs) :
                packs[i].name \notin PackNamesOf(ret'.specs) =>
                    /\ i <= Len(packs')
                    /\ packs'[i] = packs[i]
                    /\ RowsOfPack(scheduled_queries', i) = RowsOfPack(scheduled_queries, i)
                    /\ RowsOfPack(pack_targets', i) = RowsOfPack(pack_targets, i)
           /\ labels' = labels
           /\ label_query_executions' = label_query_executions]_vars

\* A successful batch has just been applied that names one pack only, while
\* the other pack is stored with its scheduled queries and targets.
C19_Witness ==
    /\ ret.op = "ApplyPackSpecs"
    /\ ret.err = NoError
    /\ ret.specs # <<>>
    /\ \E p \in Range(packs) :
          /\ p.name \notin PackNamesOf(ret.specs)
          /\ RowsOfPack(scheduled_queries, p.id) # <<>>
          /\ RowsOfPack(pack_targets, p.id) # <<>>
          /\ \E q \in Range(packs) :
                /\ q.name \in PackNamesOf(ret.specs)
                /\ RowsOfPack(scheduled_queries, q.id) # <<>>

(***************************************************************************)
(* More properties of targeting (specification SpecTarget).                *)
(***************************************************************************)
\* Host h has a label_query_executions row with matches = TRUE for the label
\* of some Label-kind target of pack pid.
HasMatchingExecution(pid, h) ==
    \E pt \in Range(pack_targets) :
        /\ pt.pack_id = pid
        /\ pt.type = TargetLabel
        /\ [host_id |-> h, label_id |-> pt.target_id, matches |-> TRUE] \in label_query_executions

\* C14: in every reachable state ListPacksForHost(h) holds no disabled pack,
\* whatever label targets and execution rows the pack has.
C14_DisabledExcluded ==
    \A h \in hosts : \A p \in ListPacksForHost(DB, h) : ~p.disabled

\* A disabled pack has a label target whose label matches a host, and the
\* host's pack list does not hold it.
C14_Witness ==
    \E p \in Range(packs), h \in hosts :
        /\ p.disabled
        /\ ~p.deleted
        /\ HasMatchingExecution(p.id, h)
        /\ p \notin ListPacksForHost(DB, h)

\* C15: after a successful ApplyPackSpecs the scheduled_queries rows of every
\* pack named in the batch are exactly the entries of its spec and its
\* pack_targets rows are exactly one Label-kind row per label of its spec:
\* no earlier scheduled query, Label target or Host target of the pack is left.
C15_ChildrenReplaced ==
    (ret.op = "ApplyPackSpecs" /\ ret.err = NoError) =>
        \A n \in PackNamesOf(ret.specs) :
            LET id == SelectPackID(DB, n)
                spec == LastSpecNamed(ret.specs, n)
            IN  /\ RowsOfPack(scheduled_queries, id) = SpecQueryRows(id, spec)
                /\ RowsOfPack(pack_targets, id) = SpecTargetRows(id, spec)

\* A pack holds a Host target, Label targets and scheduled queries, and a
\* successful apply of another spec of its name leaves none of the rows that
\* are not in that spec.
C15_Witness ==
    \E p \in Range(packs), h \in hosts, specs \in TargetBatches :
        /\ ExplicitlyTargeted(p.id, h)
        /\ Len(specs) = 1
        /\ specs[1].Name = p.name
        /\ Len(RowsOfPack(scheduled_queries, p.id)) > Len(specs[1].Queries)
        /\ Len(RowsOfPack(pack_targets, p.id)) > Len(specs[1].Targets.Labels) + 1
        /\ \E r \in {ApplyPackSpecsResult(DB, specs)} :
              /\ r.err = NoError
              /\ RowsOfPack(r.db.scheduled_queries, p.id) = SpecQueryRows(p.id, specs[1])
              /\ RowsOfPack(r.db.pack_targets, p.id) = SpecTargetRows(p.id, specs[1])
              /\ \A pt \in Range(r.db.pack_targets) : pt.type # TargetHost

\* C16: a host is in ListHostsInPack(P) only if it is an explicit target of
\* P or has a matches = TRUE execution row for the label of a Label target of
\* P, and P is in ListPacksForHost(h) only if h has such a row: an absent row
\* or a matches = FALSE row gives non-membership, and the reads return a list.
C16_MatchRequired ==
    /\ \A p \in Range(packs), h \in hosts :
          /\ h \in ListHostsInPack(DB, p.id)
                => (HasMatchingExecution(p.id, h) \/ ExplicitlyTargeted(p.id, h))
          /\ p \in ListPacksForHost(DB, h) => HasMatchingExecution(p.id, h)
    /\ \A h \in hosts : ListPacksForHost(DB, h) \subseteq Range(packs)
    /\ \A p \in Range(packs) : ListHostsInPack(DB, p.id) \subseteq hosts

\* A pack has a Label target whose label has only a matches = FALSE row for
\* a host: both reads return the empty list.
C16_Witness ==
    \E p \in Range(packs), h \in hosts, pt \in Range(pack_targets) :
        /\ ~p.deleted /\ ~p.disabled
        /\ pt.pack_id = p.id /\ pt.type = TargetLabel
        /\ [host_id |-> h, label_id |-> pt.target_id, matches |-> FALSE] \in label_query_executions
        /\ ListHostsInPack(DB, p.id) = {}
        /\ ListPacksForHost(DB, h) = {}

\* C20: an ApplyPackSpecs changes nothing of an existing pack row but its
\* description, platform and deleted flag: the id, name and disabled flag
\* stay, and a disabled pack is in no host's ListPacksForHost after the call.
C20_IdAndDisabledKept ==
    [][(ret'.op = "ApplyPackSpecs")
        => /\ Len(packs') >= Len(packs)
           /\ \A i \in 1..Len(packs) :
                /\ [packs'[i] EXCEPT !.description = packs[i].description,
                                     !.platform = packs[i].platform,
                                     !.deleted = packs[i].deleted] = packs[i]
                /\ packs[i].disabled =>
                      \A h \in hosts : packs'[i] \notin ListPacksForHost(DB', h)]_vars

\* A successful apply has just rewritten a pack that is disabled (a new row
\* is never disabled, so the pack was disabled before the call) and that has
\* a matching label target.
C20_Witness ==
    /\ ret.op = "ApplyPackSpecs"
    /\ ret.err = NoError
    /\ \E p \in Range(packs), h \in hosts :
          /\ p.name \in PackNamesOf(ret.specs)
          /\ p.disabled
          /\ ~p.deleted
          /\ HasMatchingExecution(p.id, h)
          /\ p \notin ListPacksForHost(DB, h)

(***************************************************************************)
(* Properties of concurrent callers (SpecReader and SpecConcurrent).       *)
(***************************************************************************)
\* C13: every spec a GetPackSpecs returns is the pack as it was in one
\* version of the tables committed while the call ran (the version before
\* an ApplyPackSpecs commit or the one after it): its fields, its targets
\* and its scheduled queries all come from that one version.
C13_WholeVersionRead ==
    txs.reader.pc = "returned" =>
        \A i \in 1..Len(txs.reader.specs) :
            \E v \in txs.reader.versions : \E p \in Range(v.packs) :
                txs.reader.specs[i] \in SpecsOfPackRow(v, p)

\* The fields and the children of the pack of name n in db: what a caller
\* can tell apart (the order of the rows in the tables is not part of it).
PackContent(db, n) ==
    LET id == SelectPackID(db, n)
    IN  [description |-> db.packs[id].description,
         platform |-> db.packs[id].platform,
         queries |-> Range(RowsOfPack(db.scheduled_queries, id)),
         targets |-> Range(RowsOfPack(db.pack_targets, id)),
         rows |-> Len(RowsOfPack(db.scheduled_queries, id)) + Len(RowsOfPack(db.pack_targets, id))]

\* The content of pack id that spec alone gives.
SpecContent(id, spec) ==
    [description |-> spec.Description,
     platform |-> spec.Platform,
     queries |-> Range(SpecQueryRows(id, spec)),
     targets |-> Range(SpecTargetRows(id, spec)),
     rows |-> Len(spec.Queries) + Len(spec.Targets.Labels)]

\* C18: with two callers of ApplyPackSpecs running statement by statement,
\* a commit leaves every pack it names with the fields, scheduled queries and
\* targets of the committing call's spec, and every pack always has the
\* content of one single spec: never fields of one call with children of
\* the other, never the children of both.
C18_SerialPerPack ==
    /\ (ret.op = "ApplyPackSpecs" /\ ret.err = NoError) =>
          \A n \in PackNamesOf(ret.specs) :
              PackContent(DB, n) = SpecContent(SelectPackID(DB, n), LastSpecNamed(ret.specs, n))
    /\ \A p \in Range(packs) :
          \E s \in PackSpecs : s.Name = p.name /\ PackContent(DB, p.name) = SpecContent(p.id, s)

\* Two calls that name pack p1 with different specs have both committed,
\* the first one while the transaction of the second was open, and p1 has
\* the content of the spec of the call that committed last.
C18_Witness ==
    \E w \in Writers, o \in Writers :
        /\ w # o
        /\ txs.writer[w].pc = "idle"
        /\ txs.writer[o].pc = "idle"
        /\ ret = Returned("ApplyPackSpecs", txs.writer[w].specs, NULL, NoError)
        /\ txs.writer[w].err = NoError
        /\ txs.writer[w].overlapped
        /\ txs.writer[o].err = NoError
        /\ "p1" \in PackNamesOf(txs.writer[w].specs)
        /\ "p1" \in PackNamesOf(txs.writer[o].specs)
        /\ LastSpecNamed(txs.writer[w].specs, "p1") # LastSpecNamed(txs.writer[o].specs, "p1")
        /\ PackContent(DB, "p1")
              = SpecContent(SelectPackID(DB, "p1"), LastSpecNamed(txs.writer[w].specs, "p1"))

====
